---- MODULE Spec2Model ----
(***************************************************************************)
(* The real-time chat subsystem of HouseHunter: the conversation store     *)
(* (services/chat_service.py, models/chat.py), the live channel handler    *)
(* chat_ws with its two asyncio duties (routes/chat_routes.py) and the     *)
(* Redis publish/subscribe bus it talks to.                                *)
(***************************************************************************)
EXTENDS Integers, Sequences, FiniteSets, TLC

\* ------------------------------------------------------------------ bounds
MaxSessions == 2    \* connection attempts the clients make
MaxFrames   == 2    \* frames the clients send, over all connections
MaxClock    == 2    \* highest value the wall clock reaches
MaxWorkers  == 2    \* HTTP requests served at the same time
MaxCalls    == 2    \* HTTP requests the clients make
MaxHistory  == 2    \* messages stored before the first request, where a history is given

\* ------------------------------------------------------- program constants
MinContentLen == 1      \* CreateChatMessageRequest.content min_length
MaxContentLen == 2000   \* CreateChatMessageRequest.content max_length

\* ------------------------------------------------------------------ values
Users     == {"u1", "u2", "u3"}
Anonymous == "anonymous"          \* current_user.is_authenticated is False
Sessions  == 1..MaxSessions
Workers   == 1..MaxWorkers

NoProperty == "NULL"              \* Chat.property_id of a direct chat

\* A text is known by its body and its length (len(content) in the code).
Text(body, len) == [body |-> body, len |-> len]
EmptyText   == Text("", MinContentLen - 1)
HiText      == Text("hi", MinContentLen + 1)
LongestText == Text("x*max", MaxContentLen)
TooLongText == Text("x*max+1", MaxContentLen + 1)
Texts       == {EmptyText, HiText, LongestText, TooLongText}

\* An inbound websocket frame: raw text that may or may not be JSON, and a
\* JSON object that may or may not carry a "content" field. The object may
\* carry other members too ("sender_id", "chat_id"), which
\* CreateChatMessageRequest does not declare: the frame with the longest
\* content names user u3 and conversation 2.
Frame(json, has, content) ==
    [json |-> json, hasContent |-> has, content |-> content, sender_id |-> "", chat_id |-> 0]
GarbageFrame  == Frame(FALSE, FALSE, EmptyText)
NoFieldFrame  == Frame(TRUE, FALSE, EmptyText)
SpoofFrame    == [Frame(TRUE, TRUE, LongestText) EXCEPT !.sender_id = "u3", !.chat_id = 2]
Frames        == {GarbageFrame, NoFieldFrame, SpoofFrame}
                     \cup {Frame(TRUE, TRUE, t) : t \in Texts \ {LongestText}}
NoFrame       == GarbageFrame

VARIABLES
    chats,      \* committed rows of table chats; a chat's id is its index
    messages,   \* committed rows of table chat_messages; a message's id is its index
    now,        \* the wall clock (datetime.now / func.now)
    handler,    \* per connection: the chat_ws coroutine
    sender,     \* per connection: sender_task (redis_subscriber_task)
    receiver,   \* per connection: receiver_task (websocket_receiver_task)
    pubsub,     \* per connection: the Redis PubSub object of redis_subscriber_task
    inbox,      \* per connection: payloads the bus delivered to the subscription
    sent,       \* per connection: frames passed to websocket.send
    published,  \* history of successful redis_client.publish calls
    clients,    \* what the clients may still do: connections to open, frames to send
    faults,     \* whether the store, the bus and the transport may fail in this run
    worker      \* per HTTP request in progress: the route and the service call it runs

vars == <<chats, messages, now, handler, sender, receiver, pubsub, inbox, sent, published,
          clients, faults, worker>>

\* The live channel's own state.
wsVars == <<handler, sender, receiver, pubsub, inbox, sent, published>>

storeVars == <<chats, messages, now>>

\* ------------------------------------------------------------------- store
Chat(property_id, initiator_id, property_user_id, at) ==
    [property_id |-> property_id, initiator_id |-> initiator_id,
     property_user_id |-> property_user_id, created_at |-> at, updated_at |-> at]

ChatIds == 1..Len(chats)
\* Ids a caller may name: every stored chat and one that is not stored.
NamedChatIds == 1..(Len(chats) + 1)

ChatMessage(id, chat_id, sender_id, content, at) ==
    [id |-> id, chat_id |-> chat_id, sender_id |-> sender_id, content |-> content,
     is_read |-> FALSE, created_at |-> at]

\* A variant of the participation test that knows the initiator only.
IsInitiator(chat, user) == user = chat.initiator_id

\* ChatService.get_chat_by_id: the row, or the exception it raises.
IsParticipant(chat, user) ==
    user = chat.initiator_id \/ user = chat.property_user_id

\* A variant of the lookup that only tests that the row exists.
GetChatByIdUnchecked(chat_id, user) ==
    IF chat_id \notin ChatIds THEN "ChatNotFoundException" ELSE "ok"

GetChatById(chat_id, user) ==
    IF chat_id \notin ChatIds THEN "ChatNotFoundException"
    ELSE IF ~IsParticipant(chats[chat_id], user) THEN "UnauthorizedException"
    ELSE "ok"

\* A variant of the content validation with no upper limit.
ValidContentNoMax(t) == t.len >= MinContentLen

\* CreateChatMessageRequest.model_validate on the decoded frame.
ValidContent(t) == t.len >= MinContentLen /\ t.len <= MaxContentLen

\* ChatMessageResponse.model_validate(new_message).model_dump_json()
UserResponse(user_id) == [id |-> user_id]

ChatMessageResponse(m) ==
    [id |-> m.id, chat_id |-> m.chat_id, sender_id |-> m.sender_id,
     content |-> m.content, is_read |-> m.is_read, created_at |-> m.created_at,
     sender |-> UserResponse(m.sender_id)]

\* A variant of the timestamp update that also writes the initiator into the
\* slot of the property user.
TouchAndTakeOver(chat, t) ==
    [chat EXCEPT !.updated_at = t, !.property_user_id = chat.initiator_id]

\* chat.updated_at = datetime.now(timezone.utc), and
\* update(Chat).where(Chat.id == chat_id).values(updated_at=...): the only
\* writes the chat operations make to a stored row of table chats.
Touch(chat, t) == [chat EXCEPT !.updated_at = t]

\* The Redis channel name f"chat:{chat_id}"
Topic(chat_id) == <<"chat", chat_id>>

\* Reading the clock: time may have advanced since the last reading.
ClockReadings == {t \in {now, now + 1} : t <= MaxClock}

\* The database's func.now() for a row written when the application clock reads t.
DbNow(t) == {c \in {t, t + 1} : c <= MaxClock}

\* The value of a variable that holds no message row.
NoMessage == ChatMessage(0, 0, Anonymous, EmptyText, 0)

\* --------------------------------------------------------- initial state
\* One listing-bound conversation (u1 asked u2 about listing p1) and one direct
\* conversation (u2 and u3), both created before the first connection.
InitChats == <<Chat("p1", "u1", "u2", 0), Chat(NoProperty, "u2", "u3", 0)>>

InitHandler  == [pc |-> "init", user |-> Anonymous, chat |-> 0,
                 accepted |-> FALSE, response |-> "", caught |-> "", cancelReq |-> FALSE]
InitSender   == [pc |-> "none", cancelReq |-> FALSE, exit |-> "", result |-> ""]
InitReceiver == [pc |-> "none", frame |-> NoFrame, cancelReq |-> FALSE, result |-> "",
                 msg |-> NoMessage, touch |-> 0, log |-> <<>>]

InitStore ==
    /\ now = 0
    /\ chats = InitChats
    /\ messages = <<>>

InitWorker == [pc |-> "idle", op |-> "", user |-> Anonymous, chat_id |-> 0,
               property_id |-> NoProperty, other |-> Anonymous, content |-> EmptyText,
               page |-> 0, per_page |-> 0, new_chat |-> Chat(NoProperty, Anonymous, Anonymous, 0),
               new_message |-> NoMessage, touch |-> 0, marked |-> {},
               exc |-> "", status |-> 0, result |-> <<>>]

InitSessions ==
    /\ handler = [s \in Sessions |-> InitHandler]
    /\ sender = [s \in Sessions |-> InitSender]
    /\ receiver = [s \in Sessions |-> InitReceiver]
    /\ pubsub = [s \in Sessions |-> "none"]
    /\ inbox = [s \in Sessions |-> <<>>]
    /\ sent = [s \in Sessions |-> <<>>]
    /\ published = <<>>

InitWorkers == worker = [w \in Workers |-> InitWorker]

Init ==
    /\ InitStore
    /\ InitSessions
    /\ InitWorkers
    /\ clients = [connections |-> 1, frames |-> MaxFrames, calls |-> 0]
    /\ faults = TRUE

\* ------------------------------------------------- chat_ws: the handshake
\* The routes import the name AuthorizationException from services/exceptions.py,
\* which defines no class of that name (ChatService raises UnauthorizedException).
\* What an except clause naming it catches depends on the exceptions module the
\* application is run with: a class of its own, or UnauthorizedException renamed.
AuthorizationException ==
    {{"AuthorizationException"}, {"AuthorizationException", "UnauthorizedException"}}

\* Which except clause of chat_ws takes an exception raised inside its try.
ChatWsExcept(auth, exc) ==
    IF exc = "CancelledError" THEN "cancelled"
    ELSE IF exc \in auth \cup {"ChatNotFoundException"} THEN "rejected"
    ELSE "unexpected"

\* A variant of the handshake that accepts first and checks nothing.
ChatWsAcceptsFirst(s, user, chat_id, redis_client) ==
    /\ handler' = [handler EXCEPT ![s] = [@ EXCEPT !.user = user, !.chat = chat_id,
                       !.pc = "gather", !.accepted = TRUE, !.response = "accept"]]
    /\ sender' = [sender EXCEPT ![s].pc = "created"]
    /\ receiver' = [receiver EXCEPT ![s].pc = "receive"]

\* chat_ws up to and including websocket.accept() and the two create_task calls.
ChatWs(s, user, chat_id, redis_client) ==
    LET h    == handler[s]
        conn == [h EXCEPT !.user = user, !.chat = chat_id]
        exc  == GetChatById(chat_id, user)
    IN  IF ~redis_client
        THEN /\ handler' = [handler EXCEPT ![s] = [conn EXCEPT !.pc = "closed", !.response = "503"]]
             /\ UNCHANGED <<sender, receiver>>
        ELSE IF user = Anonymous
        THEN /\ handler' = [handler EXCEPT ![s] = [conn EXCEPT !.pc = "closed", !.response = "401"]]
             /\ UNCHANGED <<sender, receiver>>
        ELSE IF exc # "ok"
        THEN \* the exception is logged; websocket.accepted is False, nothing is
             \* sent and the handler returns None
             /\ \E auth \in AuthorizationException :
                   handler' = [handler EXCEPT ![s] = [conn EXCEPT !.pc = "closed",
                                !.response = "none", !.caught = ChatWsExcept(auth, exc)]]
             /\ UNCHANGED <<sender, receiver>>
        ELSE /\ handler' = [handler EXCEPT ![s] = [conn EXCEPT !.pc = "gather",
                                !.accepted = TRUE, !.response = "accept"]]
             /\ sender' = [sender EXCEPT ![s].pc = "created"]
             /\ receiver' = [receiver EXCEPT ![s].pc = "receive"]

Connect(s) ==
    /\ handler[s].pc = "init"
    /\ \A t \in Sessions : t < s => handler[t].pc # "init"
    /\ clients.connections > 0
    /\ clients' = [clients EXCEPT !.connections = @ - 1]
    /\ \E user \in Users \cup {Anonymous}, chat_id \in NamedChatIds, redis_client \in BOOLEAN :
          ChatWs(s, user, chat_id, redis_client)
    /\ UNCHANGED <<storeVars, pubsub, inbox, sent, published, faults, worker>>

\* ---------------------------------------- websocket_receiver_task (inbound)
\* The frame is over: the duty logs what it did with it (the exception it
\* caught, or the publish) and awaits the next frame.
NextFrame(s, caught) ==
    receiver' = [receiver EXCEPT ![s].pc = "receive", ![s].frame = NoFrame,
                                 ![s].msg = NoMessage, ![s].touch = 0,
                                 ![s].log = Append(@, caught)]

\* raw_data = await websocket.receive()
RecvFrame(s) ==
    /\ receiver[s].pc = "receive"
    /\ ~receiver[s].cancelReq
    /\ clients.frames > 0
    /\ clients' = [clients EXCEPT !.frames = @ - 1]
    /\ \E f \in Frames :
          receiver' = [receiver EXCEPT ![s].pc = "handle", ![s].frame = f]
    /\ UNCHANGED <<storeVars, handler, sender, pubsub, inbox, sent, published, faults, worker>>

\* ChatService.add_message_to_chat, called by the inbound duty: the participation
\* check, the new row, chat.updated_at and the flush, which may fail.
FlushFails(s, t) ==
    /\ faults
    /\ NextFrame(s, "ChatException")
    /\ now' = t

\* A variant that takes the sender and the conversation from the frame when the
\* frame names them.
AddMessageToChatAsClaimed(s, content) ==
    LET f       == receiver[s].frame
        chat_id == IF f.chat_id # 0 THEN f.chat_id ELSE handler[s].chat
        user    == IF f.sender_id # "" THEN f.sender_id ELSE handler[s].user
    IN  \E t \in ClockReadings :
           \/ \E c \in DbNow(t) :
                 /\ receiver' = [receiver EXCEPT ![s].pc = "flushed",
                       ![s].frame = NoFrame,
                       ![s].msg = ChatMessage(0, chat_id, user, content, c),
                       ![s].touch = t]
                 /\ now' = c
           \/ FlushFails(s, t)

AddMessageToChat(s, content) ==
    LET chat_id == handler[s].chat
        user    == handler[s].user
        exc     == GetChatById(chat_id, user)
    IN  IF exc # "ok"
        THEN NextFrame(s, exc) /\ now' = now
        ELSE \E t \in ClockReadings :
                \/ \E c \in DbNow(t) :
                      /\ receiver' = [receiver EXCEPT ![s].pc = "flushed",
                            ![s].frame = NoFrame,
                            ![s].msg = ChatMessage(0, chat_id, user, content, c),
                            ![s].touch = t]
                      /\ now' = c
                \/ FlushFails(s, t)

\* json.loads, CreateChatMessageRequest.model_validate, then the store write.
HandleFrame(s) ==
    /\ receiver[s].pc = "handle"
    /\ ~receiver[s].cancelReq
    /\ LET f == receiver[s].frame
       IN  IF ~f.json THEN NextFrame(s, "JSONDecodeError") /\ now' = now
           ELSE IF ~(f.hasContent /\ ValidContent(f.content))
           THEN NextFrame(s, "ValidationError") /\ now' = now
           ELSE AddMessageToChat(s, f.content)
    /\ UNCHANGED <<chats, messages, handler, sender, pubsub, inbox, sent, published, clients, faults, worker>>

\* await db_session.commit(): the message row and chat.updated_at become visible
\* together, or the commit fails and the session is rolled back.
\* A variant in which the failed commit goes unnoticed and the duty moves on to
\* the publish.
CommitFailsUnnoticed(s) ==
    /\ faults
    /\ receiver' = [receiver EXCEPT ![s].pc = "committed"]
    /\ UNCHANGED <<chats, messages>>

CommitFails(s) ==
    /\ faults
    /\ NextFrame(s, "SQLAlchemyError")
    /\ UNCHANGED <<chats, messages>>

CommitMessage(s) ==
    /\ receiver[s].pc = "flushed"
    /\ ~receiver[s].cancelReq
    /\ \/ LET p == receiver[s].msg
              m == ChatMessage(Len(messages) + 1, p.chat_id, p.sender_id, p.content,
                               p.created_at)
          IN  /\ messages' = Append(messages, m)
              /\ chats' = [chats EXCEPT ![p.chat_id] = Touch(@, receiver[s].touch)]
              /\ receiver' = [receiver EXCEPT ![s].pc = "committed", ![s].msg = m]
       \/ CommitFails(s)
    /\ UNCHANGED <<now, handler, sender, pubsub, inbox, sent, published, clients, faults, worker>>

\* async with get_session() as db_session: the inbound duty holds a store
\* session from the write of the message until the commit; the block is left
\* with the commit, with an exception or with the cancellation.
SessionOpen(s) == receiver[s].pc = "flushed"

\* A variant in which the publish is made inside the store session, before the
\* commit.
PublishInsideSession(s) ==
    /\ receiver[s].pc = "flushed"
    /\ ~receiver[s].cancelReq
    /\ LET topic   == Topic(handler[s].chat)
           payload == ChatMessageResponse(receiver[s].msg)
       IN  /\ published' = Append(published, [topic |-> topic, payload |-> payload,
                                               by |-> s])
           /\ inbox' = [t \in Sessions |->
                           IF pubsub[t] = "subscribed" /\ Topic(handler[t].chat) = topic
                           THEN Append(inbox[t], payload) ELSE inbox[t]]
           /\ UNCHANGED receiver
    /\ UNCHANGED <<storeVars, handler, sender, pubsub, sent, clients, faults, worker>>

\* A variant of the bus that hands a payload to every subscription, whatever
\* its topic.
SubscribersOfAnyTopic(topic) ==
    {t \in Sessions : pubsub[t] = "subscribed"}

\* redis_client.publish: the payload reaches every subscription that is
\* subscribed to the topic at this moment, and no other.
Subscribers(topic) ==
    {t \in Sessions : pubsub[t] = "subscribed" /\ Topic(handler[t].chat) = topic}

\* A variant in which the failed publish ends the inbound duty.
PublishFailsEndsDuty(s) ==
    /\ faults
    /\ receiver' = [receiver EXCEPT ![s].pc = "done", ![s].result = "error",
                                    ![s].log = Append(@, "RedisError")]
    /\ UNCHANGED <<inbox, published>>

PublishFails(s) ==
    /\ faults
    /\ NextFrame(s, "RedisError")
    /\ UNCHANGED <<inbox, published>>

PublishMessage(s) ==
    /\ receiver[s].pc = "committed"
    /\ ~receiver[s].cancelReq
    /\ \/ LET topic   == Topic(handler[s].chat)
              payload == ChatMessageResponse(receiver[s].msg)
          IN  /\ published' = Append(published, [topic |-> topic, payload |-> payload,
                                                  by |-> s])
              /\ inbox' = [t \in Sessions |->
                              IF t \in Subscribers(topic) THEN Append(inbox[t], payload)
                              ELSE inbox[t]]
              /\ NextFrame(s, "published")
       \/ PublishFails(s)
    /\ UNCHANGED <<storeVars, handler, sender, pubsub, sent, clients, faults, worker>>

\* CancelledError reaches the inbound duty at whichever await it is suspended in:
\* an open store session is closed without commit and the task ends cancelled.
ReceiverCancelled(s) ==
    /\ receiver[s].cancelReq
    /\ receiver[s].pc \in {"receive", "handle", "flushed", "committed"}
    /\ receiver' = [receiver EXCEPT ![s].pc = "done", ![s].cancelReq = FALSE,
                                    ![s].frame = NoFrame, ![s].msg = NoMessage,
                                    ![s].touch = 0, ![s].result = "cancelled"]
    /\ UNCHANGED <<storeVars, handler, sender, pubsub, inbox, sent, published, clients, faults, worker>>

\* ------------------------------------------ redis_subscriber_task (outbound)
\* A variant in which a duty that is interrupted or fails ends at once, without
\* the finally clause.
SenderSkipsCleanup(s, why) ==
    sender' = [sender EXCEPT ![s].pc = "done", ![s].cancelReq = FALSE,
                 ![s].result = IF why = "cancelled" THEN "cancelled" ELSE "returned"]

\* The except and finally clauses: the error is logged (or the cancellation
\* re-raised) and, pubsub being set, the duty awaits pubsub.unsubscribe.
SenderCleansUp(s, why) ==
    sender' = [sender EXCEPT ![s].pc = "cleanup", ![s].exit = why, ![s].cancelReq = FALSE]

\* The task is done: it returned (the error was swallowed) or it ended cancelled.
SenderDone(s, result) ==
    sender' = [sender EXCEPT ![s].pc = "done", ![s].cancelReq = FALSE, ![s].result = result]

SubscribeFails(s) ==
    /\ faults
    /\ pubsub' = [pubsub EXCEPT ![s] = "created"]
    /\ SenderCleansUp(s, "error")

\* pubsub = redis_client.pubsub(...); await pubsub.subscribe(f"chat:{chat_id}")
SenderSubscribe(s) ==
    /\ sender[s].pc = "created"
    /\ ~sender[s].cancelReq
    /\ \/ /\ pubsub' = [pubsub EXCEPT ![s] = "subscribed"]
          /\ sender' = [sender EXCEPT ![s].pc = "listening"]
       \/ SubscribeFails(s)
    /\ UNCHANGED <<storeVars, handler, receiver, inbox, sent, published, clients, faults, worker>>

SendFails(s) ==
    /\ faults
    /\ SenderCleansUp(s, "error")
    /\ UNCHANGED sent

\* A variant of the loop that sends a payload and leaves it in the
\* subscription's queue.
SenderForwardsAgain(s) ==
    /\ sender[s].pc = "listening"
    /\ ~sender[s].cancelReq
    /\ inbox[s] # <<>>
    /\ sent' = [sent EXCEPT ![s] = Append(@, Head(inbox[s]))]
    /\ UNCHANGED <<storeVars, handler, sender, receiver, pubsub, inbox, published,
                   clients, faults, worker>>

\* async for message in pubsub.listen(): await websocket.send(message["data"])
SenderForward(s) ==
    /\ sender[s].pc = "listening"
    /\ ~sender[s].cancelReq
    /\ inbox[s] # <<>>
    /\ inbox' = [inbox EXCEPT ![s] = Tail(@)]
    /\ \/ /\ sent' = [sent EXCEPT ![s] = Append(@, Head(inbox[s]))]
          /\ UNCHANGED sender
       \/ SendFails(s)
    /\ UNCHANGED <<storeVars, handler, receiver, pubsub, published, clients, faults, worker>>

\* pubsub.listen() raises: the connection to the bus is lost.
SenderListenFails(s) ==
    /\ faults
    /\ sender[s].pc = "listening"
    /\ ~sender[s].cancelReq
    /\ SenderCleansUp(s, "error")
    /\ UNCHANGED <<storeVars, handler, receiver, pubsub, inbox, sent, published, clients, faults, worker>>

\* finally: await pubsub.unsubscribe(...); await pubsub.close(), or the
\* unsubscribe raises and the error is logged.
UnsubscribeFails(s) ==
    /\ faults
    /\ UNCHANGED <<pubsub, inbox>>

SenderCleanup(s) ==
    /\ sender[s].pc = "cleanup"
    /\ ~sender[s].cancelReq
    /\ \/ /\ pubsub' = [pubsub EXCEPT ![s] = "closed"]
          /\ inbox' = [inbox EXCEPT ![s] = <<>>]
       \/ UnsubscribeFails(s)
    /\ SenderDone(s, IF sender[s].exit = "cancelled" THEN "cancelled" ELSE "returned")
    /\ UNCHANGED <<storeVars, handler, receiver, sent, published, clients, faults, worker>>

\* CancelledError reaches the outbound duty: before its first step (the body
\* never runs), in subscribe/listen/send (except CancelledError: raise, then the
\* finally clause), or inside the finally clause itself, whose except Exception
\* does not catch it: the unsubscribe is abandoned, sent to the bus or not.
\* A subscribe that is interrupted has reached the bus or has not.
SenderCancelled(s) ==
    /\ sender[s].cancelReq
    /\ \/ /\ sender[s].pc = "created"
          /\ SenderDone(s, "cancelled")
          /\ UNCHANGED <<pubsub, inbox>>
       \/ /\ sender[s].pc = "created"
          /\ SenderCleansUp(s, "cancelled")
          /\ \E p \in {"created", "subscribed"} : pubsub' = [pubsub EXCEPT ![s] = p]
          /\ UNCHANGED inbox
       \/ /\ sender[s].pc = "listening"
          /\ SenderCleansUp(s, "cancelled")
          /\ UNCHANGED <<pubsub, inbox>>
       \/ /\ sender[s].pc = "cleanup"
          /\ SenderDone(s, "cancelled")
          /\ \/ UNCHANGED <<pubsub, inbox>>
             \/ /\ pubsub[s] = "subscribed"
                /\ pubsub' = [pubsub EXCEPT ![s] = "unsubscribed"]
                /\ UNCHANGED inbox
    /\ UNCHANGED <<storeVars, handler, receiver, sent, published, clients, faults, worker>>

\* ------------------------------------------- chat_ws: gather and the exit
TaskDone(task) == task.pc = "done"

\* task.cancel(): a task that is done ignores it.
Cancel(task) == IF TaskDone(task) THEN task ELSE [task EXCEPT !.cancelReq = TRUE]

\* The client goes away: the handler task is cancelled while it awaits gather,
\* and gather passes the cancellation on to both children.
ClientDisconnect(s) ==
    /\ handler[s].pc = "gather"
    /\ ~handler[s].cancelReq
    /\ handler' = [handler EXCEPT ![s].cancelReq = TRUE]
    /\ sender' = [sender EXCEPT ![s] = Cancel(@)]
    /\ receiver' = [receiver EXCEPT ![s] = Cancel(@)]
    /\ UNCHANGED <<storeVars, pubsub, inbox, sent, published, clients, faults, worker>>

\* asyncio.gather(sender_task, receiver_task) completes when a child ends
\* cancelled or with an exception, or when both children are done.
GatherCompletes(s) ==
    \/ (TaskDone(sender[s]) /\ sender[s].result = "cancelled")
    \/ (TaskDone(receiver[s]) /\ receiver[s].result = "cancelled")
    \/ (TaskDone(sender[s]) /\ TaskDone(receiver[s]))

\* The await returns or raises CancelledError; the finally clause cancels the
\* task that is not done, without awaiting it, and the handler returns.
HandlerExit(s) ==
    /\ handler[s].pc = "gather"
    /\ GatherCompletes(s)
    /\ handler' = [handler EXCEPT ![s].pc = "closed", ![s].cancelReq = FALSE,
                       ![s].caught = IF sender[s].result = "cancelled"
                                        \/ receiver[s].result = "cancelled"
                                     THEN ChatWsExcept({}, "CancelledError") ELSE ""]
    /\ sender' = [sender EXCEPT ![s] = Cancel(@)]
    /\ receiver' = [receiver EXCEPT ![s] = Cancel(@)]
    /\ UNCHANGED <<storeVars, pubsub, inbox, sent, published, clients, faults, worker>>

\* ------------------------------------------------------ the live channel
Next ==
    \E s \in Sessions :
        \/ Connect(s)
        \/ RecvFrame(s)
        \/ HandleFrame(s)
        \/ CommitMessage(s)
        \/ PublishMessage(s)
        \/ ReceiverCancelled(s)
        \/ SenderSubscribe(s)
        \/ SenderForward(s)
        \/ SenderListenFails(s)
        \/ SenderCleanup(s)
        \/ SenderCancelled(s)
        \/ ClientDisconnect(s)
        \/ HandlerExit(s)

Spec == Init /\ [][Next]_vars

\* ------------- one connection and its teardown, with no failure anywhere:
\* the store, the bus and the transport never raise, and the event loop runs
\* every task that is ready (a cancelled task is resumed, an await that can
\* return does).
InitTeardown ==
    /\ InitStore
    /\ InitSessions
    /\ InitWorkers
    /\ clients = [connections |-> 1, frames |-> MaxFrames, calls |-> 0]
    /\ faults = FALSE

NextTeardown ==
    \E s \in Sessions :
        \/ Connect(s)
        \/ RecvFrame(s)
        \/ HandleFrame(s)
        \/ CommitMessage(s)
        \/ PublishMessage(s)
        \/ ReceiverCancelled(s)
        \/ SenderSubscribe(s)
        \/ SenderForward(s)
        \/ SenderCleanup(s)
        \/ SenderCancelled(s)
        \/ ClientDisconnect(s)
        \/ HandlerExit(s)

EventLoopRuns ==
    \A s \in Sessions :
        /\ WF_vars(ReceiverCancelled(s))
        /\ WF_vars(SenderSubscribe(s))
        /\ WF_vars(SenderCleanup(s))
        /\ WF_vars(SenderCancelled(s))
        /\ WF_vars(HandlerExit(s))

SpecTeardown == InitTeardown /\ [][NextTeardown]_vars /\ EventLoopRuns

\* ------------- two connections that stay open, with no failure anywhere
InitPair ==
    /\ InitStore
    /\ InitSessions
    /\ InitWorkers
    /\ clients = [connections |-> MaxSessions, frames |-> MaxFrames, calls |-> 0]
    /\ faults = FALSE

NextPair ==
    \E s \in Sessions :
        \/ Connect(s)
        \/ RecvFrame(s)
        \/ HandleFrame(s)
        \/ CommitMessage(s)
        \/ PublishMessage(s)
        \/ SenderSubscribe(s)
        \/ SenderForward(s)

SpecPair == InitPair /\ [][NextPair]_vars

\* ------------------------------------------------- the HTTP boundary
\* ServiceException.status_code of each exception class (services/exceptions.py).
StatusCode(exc) ==
    CASE exc = "PropertyNotFoundException" -> 404
      [] exc = "UserNotFoundException"     -> 404
      [] exc = "ChatNotFoundException"     -> 404
      [] exc = "UnauthorizedException"     -> 403
      [] exc = "AuthorizationException"    -> 403
      [] exc = "InvalidRequestException"   -> 400
      [] exc = "ChatException"             -> 400
      [] OTHER                             -> 500

\* A route's except clauses: the classes it names are raised again as they are,
\* anything else is logged and replaced by ChatException.
RouteRaises(named, exc) == IF exc \in named THEN exc ELSE "ChatException"

\* A request starts on the first worker that is free; the answer of the request
\* the worker served before is gone.
StartCall(w) ==
    /\ worker[w].pc \in {"idle", "done"}
    /\ \A v \in Workers : v < w => worker[v].pc = "flushed"
    /\ clients.calls > 0
    /\ clients' = [clients EXCEPT !.calls = @ - 1]

\* The request is over: the service raised exc (or "ok"), the route passed on
\* raised, and app.handle_service_exception answered with its status code.
Answer(call, exc, raised) ==
    [call EXCEPT !.pc = "done", !.exc = exc,
                 !.status = IF raised = "ok" THEN 200 ELSE StatusCode(raised)]

\* ------------------------------------------- the conversation resolver
\* The listing directory (table properties): p1 is listed by u2 and p2 by u3
\* (lister_id is NOT NULL); any other id is not stored.
Properties == {"p1", "p2"}
NoLister == ""
ListerId(property_id) == IF property_id = "p1" THEN "u2" ELSE "u3"
NamedProperties == Properties \cup {"p9"}
\* The user directory: every user is stored, u9 is not.
NamedUsers == Users \cup {"u9"}

\* A variant of the lookup that matches the slots in the order given only.
ExistingChatsOneWay(property_id, a, b) ==
    {c \in ChatIds :
        /\ chats[c].property_id = property_id
        /\ chats[c].initiator_id = a
        /\ chats[c].property_user_id = b}

\* A variant of the lookup that matches the two users and ignores property_id.
ExistingChatsOfAnyKind(property_id, a, b) ==
    {c \in ChatIds :
        \/ (chats[c].initiator_id = a /\ chats[c].property_user_id = b)
        \/ (chats[c].initiator_id = b /\ chats[c].property_user_id = a)}

\* select(Chat).where(property_id ...).where(or_(either slot order)): the
\* committed rows that match.
ExistingChats(property_id, a, b) ==
    {c \in ChatIds :
        /\ chats[c].property_id = property_id
        /\ \/ (chats[c].initiator_id = a /\ chats[c].property_user_id = b)
           \/ (chats[c].initiator_id = b /\ chats[c].property_user_id = a)}

\* A variant of steps 3 and 4 that never looks for a stored row.
FindOrCreateAlwaysNew(w, call, property_id, initiator_id, counterpart_id, named) ==
    /\ worker' = [worker EXCEPT ![w] = [call EXCEPT !.pc = "flushed",
          !.new_chat = Chat(property_id, initiator_id, counterpart_id, now)]]
    /\ now' = now

\* steps 3 and 4 of both find-or-create methods: scalar_one_or_none on the
\* matching rows, else a new row and the flush, which may fail.
FindOrCreate(w, call, property_id, initiator_id, counterpart_id, named) ==
    LET found == ExistingChats(property_id, initiator_id, counterpart_id)
    IN  IF Cardinality(found) > 1
        THEN /\ worker' = [worker EXCEPT ![w] =
                    Answer(call, "MultipleResultsFound",
                           RouteRaises(named, "MultipleResultsFound"))]
             /\ now' = now
        ELSE IF found # {}
        THEN /\ worker' = [worker EXCEPT ![w] =
                    Answer([call EXCEPT !.chat_id = CHOOSE c \in found : TRUE], "ok", "ok")]
             /\ now' = now
        ELSE \/ \E t \in ClockReadings :
                  /\ worker' = [worker EXCEPT ![w] = [call EXCEPT !.pc = "flushed",
                        !.new_chat = Chat(property_id, initiator_id, counterpart_id, t)]]
                  /\ now' = t
             \/ /\ faults
                /\ worker' = [worker EXCEPT ![w] =
                      Answer(call, "ChatException", RouteRaises(named, "ChatException"))]
                /\ now' = now

\* ChatService.find_or_create_chat, as called by the route initiate_chat.
InitiateChatNamed == {"PropertyNotFoundException", "ChatException", "InvalidRequestException"}

FindOrCreateChat(w, property_id, initiator_id) ==
    LET call == [InitWorker EXCEPT !.op = "initiate_chat", !.user = initiator_id,
                                   !.property_id = property_id]
        property_user_id == ListerId(property_id)
        fail(exc) == /\ worker' = [worker EXCEPT ![w] =
                            Answer(call, exc, RouteRaises(InitiateChatNamed, exc))]
                     /\ now' = now
    IN  IF property_id \notin Properties THEN fail("PropertyNotFoundException")
        ELSE IF property_user_id = NoLister THEN fail("InvalidRequestException")
        ELSE IF initiator_id = property_user_id THEN fail("InvalidRequestException")
        ELSE FindOrCreate(w, [call EXCEPT !.other = property_user_id], property_id,
                          initiator_id, property_user_id, InitiateChatNamed)

InitiateChat(w) ==
    /\ StartCall(w)
    /\ \E property_id \in NamedProperties, user \in Users :
          FindOrCreateChat(w, property_id, user)
    /\ UNCHANGED <<chats, messages, wsVars, faults>>

\* ChatService.find_or_create_direct_chat, as called by initiate_direct_chat.
InitiateDirectNamed == {"UserNotFoundException", "InvalidRequestException", "ChatException"}

\* A variant that does not compare the recipient with the initiator.
FindOrCreateDirectChatUnchecked(w, initiator_id, recipient_user_id) ==
    FindOrCreate(w, [InitWorker EXCEPT !.op = "initiate_direct_chat", !.user = initiator_id,
                                       !.other = recipient_user_id],
                 NoProperty, initiator_id, recipient_user_id, InitiateDirectNamed)

FindOrCreateDirectChat(w, initiator_id, recipient_user_id) ==
    LET call == [InitWorker EXCEPT !.op = "initiate_direct_chat", !.user = initiator_id,
                                   !.other = recipient_user_id]
        fail(exc) == /\ worker' = [worker EXCEPT ![w] =
                            Answer(call, exc, RouteRaises(InitiateDirectNamed, exc))]
                     /\ now' = now
    IN  IF recipient_user_id \notin Users THEN fail("UserNotFoundException")
        ELSE IF initiator_id = recipient_user_id THEN fail("InvalidRequestException")
        ELSE FindOrCreate(w, call, NoProperty, initiator_id, recipient_user_id,
                          InitiateDirectNamed)

InitiateDirectChat(w) ==
    /\ StartCall(w)
    /\ \E user \in Users, recipient_user_id \in NamedUsers :
          FindOrCreateDirectChat(w, user, recipient_user_id)
    /\ UNCHANGED <<chats, messages, wsVars, faults>>

\* await db_session.commit() in both routes: the new row becomes visible to the
\* other requests; a failed commit is rolled back and answered as ChatException.
CommitChatFails(w) ==
    /\ faults
    /\ worker' = [worker EXCEPT ![w] = Answer(@, "SQLAlchemyError", "ChatException")]
    /\ UNCHANGED chats

CommitChat(w) ==
    /\ worker[w].pc = "flushed"
    /\ worker[w].op \in {"initiate_chat", "initiate_direct_chat"}
    /\ \/ /\ chats' = Append(chats, worker[w].new_chat)
          /\ worker' = [worker EXCEPT ![w] =
                Answer([@ EXCEPT !.chat_id = Len(chats) + 1], "ok", "ok")]
       \/ CommitChatFails(w)
    /\ UNCHANGED <<messages, now, wsVars, clients, faults>>

InitResolver ==
    /\ now = 0
    /\ chats = <<>>
    /\ messages = <<>>
    /\ InitSessions
    /\ InitWorkers
    /\ clients = [connections |-> 0, frames |-> 0, calls |-> MaxCalls]
    /\ faults = FALSE

NextResolver ==
    \E w \in Workers :
        \/ InitiateChat(w)
        \/ InitiateDirectChat(w)
        \/ CommitChat(w)

SpecResolver == InitResolver /\ [][NextResolver]_vars

\* ------------- the resolver when each request ends before the next starts
NoCallInProgress == \A v \in Workers : worker[v].pc # "flushed"

InitSequential ==
    /\ now = 0
    /\ chats = <<>>
    /\ messages = <<>>
    /\ InitSessions
    /\ InitWorkers
    /\ clients = [connections |-> 0, frames |-> 0, calls |-> MaxCalls]
    /\ faults = TRUE

NextSequential ==
    \E w \in Workers :
        \/ (NoCallInProgress /\ InitiateChat(w))
        \/ (NoCallInProgress /\ InitiateDirectChat(w))
        \/ CommitChat(w)

SpecSequential == InitSequential /\ [][NextSequential]_vars

\* ------------------------------------------------- the conversation store
\* ChatService.get_chat_by_id called on its own.
GetChat(w) ==
    /\ StartCall(w)
    /\ \E chat_id \in NamedChatIds, user \in Users :
          LET call == [InitWorker EXCEPT !.op = "get_chat_by_id", !.user = user,
                                         !.chat_id = chat_id]
              exc  == GetChatById(chat_id, user)
          IN  worker' = [worker EXCEPT ![w] = Answer(call, exc, exc)]
    /\ UNCHANGED <<storeVars, wsVars, faults>>

\* The messages of a chat in the order ORDER BY created_at may give them: rows
\* with equal created_at come in any order.
ChatMessageIds(chat_id) == {i \in 1..Len(messages) : messages[i].chat_id = chat_id}

OrderedByCreatedAt(ids) ==
    {q \in [1..Cardinality(ids) -> ids] :
        /\ \A i, j \in 1..Cardinality(ids) : i # j => q[i] # q[j]
        /\ \A i, j \in 1..Cardinality(ids) :
              i < j => messages[q[i]].created_at <= messages[q[j]].created_at}

\* A variant of the page window that starts one row late.
PageStartsLate(q, offset, limit) ==
    [i \in 1..(IF Len(q) <= offset + 1 THEN 0
               ELSE IF Len(q) - offset - 1 < limit THEN Len(q) - offset - 1 ELSE limit)
        |-> q[offset + 1 + i]]

\* .offset(offset).limit(per_page)
Page(q, offset, limit) ==
    [i \in 1..(IF Len(q) <= offset THEN 0
               ELSE IF Len(q) - offset < limit THEN Len(q) - offset ELSE limit)
        |-> q[offset + i]]

\* ceil(total_items / per_page) if per_page > 0 and total_items > 0 else 0
TotalPages(total_items, per_page) ==
    IF per_page > 0 /\ total_items > 0
    THEN (total_items + per_page - 1) \div per_page
    ELSE 0

\* ChatService.get_chat_messages: the exception it raises, or one of the results
\* it may return.
GetChatMessages(chat_id, user, page, per_page) ==
    LET exc == GetChatById(chat_id, user)
        ids == ChatMessageIds(chat_id)
    IN  IF exc # "ok" THEN {[exc |-> exc, items |-> <<>>, total |-> 0, total_pages |-> 0]}
        ELSE {[exc |-> "ok", items |-> Page(q, (page - 1) * per_page, per_page),
               total |-> Cardinality(ids),
               total_pages |-> TotalPages(Cardinality(ids), per_page)] :
              q \in OrderedByCreatedAt(ids)}

\* The route get_messages.
GetMessagesNamed(auth) == {"ChatNotFoundException"} \cup auth

GetMessages(w) ==
    /\ StartCall(w)
    /\ \E chat_id \in NamedChatIds, user \in Users, page \in 1..2, per_page \in 1..2 :
          \E r \in GetChatMessages(chat_id, user, page, per_page), auth \in AuthorizationException :
              LET call == [InitWorker EXCEPT !.op = "get_messages", !.user = user,
                              !.chat_id = chat_id, !.page = page, !.per_page = per_page,
                              !.result = r.items]
              IN  worker' = [worker EXCEPT ![w] =
                      Answer(call, r.exc,
                             IF r.exc = "ok" THEN "ok"
                             ELSE RouteRaises(GetMessagesNamed(auth), r.exc))]
    /\ UNCHANGED <<storeVars, wsVars, faults>>

\* ChatService.add_message_to_chat called by a request of its own: the
\* participation check, the row, chat.updated_at and the flush.
AddMessage(w) ==
    /\ StartCall(w)
    /\ \E chat_id \in NamedChatIds, user \in Users, content \in {HiText, LongestText} :
          LET call == [InitWorker EXCEPT !.op = "add_message_to_chat", !.user = user,
                                         !.chat_id = chat_id, !.content = content]
              exc  == GetChatById(chat_id, user)
          IN  IF exc # "ok"
              THEN worker' = [worker EXCEPT ![w] = Answer(call, exc, exc)] /\ now' = now
              ELSE \E t \in ClockReadings :
                      \/ \E c \in DbNow(t) :
                            /\ worker' = [worker EXCEPT ![w] = [call EXCEPT !.pc = "flushed",
                                  !.exc = "ok",
                                  !.new_message = ChatMessage(0, chat_id, user, content, c),
                                  !.touch = t]]
                            /\ now' = c
                      \/ /\ faults
                         /\ worker' = [worker EXCEPT ![w] =
                               Answer(call, "ChatException", "ChatException")]
                         /\ now' = t
    /\ UNCHANGED <<chats, messages, wsVars, faults>>

\* A variant of the UPDATE's WHERE clause without the sender test.
UnreadOfAnySender(chat_id, user) ==
    {i \in 1..Len(messages) : messages[i].chat_id = chat_id /\ ~messages[i].is_read}

\* The WHERE clause of the bulk UPDATE: the unread rows of the conversation
\* that the user did not send.
Unread(chat_id, user) ==
    {i \in ChatMessageIds(chat_id) : messages[i].sender_id # user /\ ~messages[i].is_read}

\* ChatService.mark_messages_as_read: the participation check, the bulk UPDATE
\* of the rows received by the user and, when a row changed, the UPDATE of
\* chats.updated_at. The UPDATE waits while a row it matches is held by the
\* uncommitted UPDATE of another request.
MarkRead(w) ==
    /\ StartCall(w)
    /\ \E chat_id \in NamedChatIds, user \in Users :
          LET call == [InitWorker EXCEPT !.op = "mark_messages_as_read", !.user = user,
                                         !.chat_id = chat_id]
              exc  == GetChatById(chat_id, user)
              rows == Unread(chat_id, user)
          IN  IF exc # "ok"
              THEN worker' = [worker EXCEPT ![w] = Answer(call, exc, exc)] /\ now' = now
              ELSE \/ \E t \in ClockReadings :
                         /\ \A v \in Workers \ {w} :
                               worker[v].pc = "flushed" => worker[v].marked \cap rows = {}
                         /\ worker' = [worker EXCEPT ![w] = [call EXCEPT !.pc = "flushed",
                               !.exc = "ok", !.marked = rows, !.touch = t,
                               !.result = <<Cardinality(rows)>>]]
                         /\ now' = IF rows = {} THEN now ELSE t
                   \/ /\ faults
                      /\ worker' = [worker EXCEPT ![w] =
                            Answer(call, "ChatException", "ChatException")]
                      /\ now' = now
    /\ UNCHANGED <<chats, messages, wsVars, faults>>

\* A variant of the UPDATE that also blanks the content of the row.
SetReadAndBlank(m) == [m EXCEPT !.is_read = TRUE, !.content = EmptyText]

\* .values(is_read=True): what the bulk UPDATE does to a row it matches.
SetRead(m) == [m EXCEPT !.is_read = TRUE]

\* The caller commits: the flushed writes become visible together, or the
\* commit fails and nothing does.
CommitWriteFails(w) ==
    /\ faults
    /\ worker' = [worker EXCEPT ![w] = Answer(@, "SQLAlchemyError", "SQLAlchemyError")]
    /\ UNCHANGED <<chats, messages>>

CommitWrite(w) ==
    /\ worker[w].pc = "flushed"
    /\ \/ /\ worker[w].op = "add_message_to_chat"
          /\ LET m == [worker[w].new_message EXCEPT !.id = Len(messages) + 1]
             IN  /\ messages' = Append(messages, m)
                 /\ chats' = [chats EXCEPT ![m.chat_id] = Touch(@, worker[w].touch)]
                 /\ worker' = [worker EXCEPT ![w] =
                        Answer([@ EXCEPT !.new_message = m], "ok", "ok")]
       \/ /\ worker[w].op = "mark_messages_as_read"
          /\ messages' = [i \in 1..Len(messages) |->
                IF i \in worker[w].marked THEN SetRead(messages[i]) ELSE messages[i]]
          /\ chats' = IF worker[w].marked = {} THEN chats
                      ELSE [chats EXCEPT ![worker[w].chat_id] = Touch(@, worker[w].touch)]
          /\ worker' = [worker EXCEPT ![w] = Answer(@, "ok", "ok")]
       \/ /\ worker[w].op \in {"add_message_to_chat", "mark_messages_as_read"}
          /\ CommitWriteFails(w)
    /\ UNCHANGED <<now, wsVars, clients, faults>>

InitService ==
    /\ InitStore
    /\ InitSessions
    /\ InitWorkers
    /\ clients = [connections |-> 0, frames |-> 0, calls |-> MaxCalls]
    /\ faults = TRUE

NextService ==
    \E w \in Workers :
        \/ GetChat(w)
        \/ GetMessages(w)
        \/ AddMessage(w)
        \/ MarkRead(w)
        \/ CommitWrite(w)

SpecService == InitService /\ [][NextService]_vars

\* ------------- one live session that receives one frame, next to requests
\* that mark read and create conversations, with no failure anywhere
InitLive ==
    /\ InitStore
    /\ InitSessions
    /\ InitWorkers
    /\ clients = [connections |-> 1, frames |-> 1, calls |-> MaxCalls]
    /\ faults = FALSE

NextLive ==
    \/ \E s \in Sessions :
          \/ Connect(s)
          \/ RecvFrame(s)
          \/ HandleFrame(s)
          \/ CommitMessage(s)
          \/ PublishMessage(s)
    \/ \E w \in Workers :
          \/ MarkRead(w)
          \/ CommitWrite(w)
          \/ InitiateDirectChat(w)
          \/ CommitChat(w)

SpecLive == InitLive /\ [][NextLive]_vars

\* ------------------- the conversation store with a history already in it
\* Rows of chat_messages written earlier by participants of the two
\* conversations, at the earliest or the latest time, read or not.
HistoryRows ==
    {[chat_id |-> c, sender_id |-> u, created_at |-> t, is_read |-> r] :
        c \in 1..Len(InitChats), u \in Users, t \in {0, MaxClock}, r \in BOOLEAN}

Histories ==
    {h \in UNION {[1..n -> HistoryRows] : n \in 0..MaxHistory} :
        \A i \in 1..Len(h) : IsParticipant(InitChats[h[i].chat_id], h[i].sender_id)}

\* The latest created_at among the rows of a history that belong to one of the
\* given conversations.
Latest(h, ids) ==
    LET times == {h[i].created_at : i \in {j \in 1..Len(h) : h[j].chat_id \in ids}} \cup {0}
    IN  CHOOSE t \in times : \A u \in times : u <= t

StoreHolds(h) ==
    /\ messages = [i \in 1..Len(h) |->
           [ChatMessage(i, h[i].chat_id, h[i].sender_id, HiText, h[i].created_at)
              EXCEPT !.is_read = h[i].is_read]]
    /\ chats = [c \in 1..Len(InitChats) |->
           [InitChats[c] EXCEPT !.updated_at = Latest(h, {c})]]
    /\ now = Latest(h, 1..Len(InitChats))

InitHistory ==
    /\ \E h \in Histories : StoreHolds(h)
    /\ InitSessions
    /\ InitWorkers
    /\ clients = [connections |-> 0, frames |-> 0, calls |-> MaxCalls]
    /\ faults = FALSE

\* Requests that read the history page by page.
NextPaging == \E w \in Workers : GetMessages(w)

SpecPaging == InitHistory /\ [][NextPaging]_vars

\* Requests that mark messages as read.
NextMarkRead ==
    \E w \in Workers :
        \/ MarkRead(w)
        \/ CommitWrite(w)

\* The histories whose rows were all written at the earliest time.
InitMarkRead ==
    /\ \E h \in {g \in Histories : \A i \in 1..Len(g) : g[i].created_at = 0} : StoreHolds(h)
    /\ InitSessions
    /\ InitWorkers
    /\ clients = [connections |-> 0, frames |-> 0, calls |-> MaxCalls]
    /\ faults = FALSE

SpecMarkRead == InitMarkRead /\ [][NextMarkRead]_vars

\* ------------------------------------------------------------- properties
\* What the inbound duty of session s logged for the frames it handled.
Logged(s, what) == {j \in 1..Len(receiver[s].log) : receiver[s].log[j] = what}

PublishedBy(s) == {i \in 1..Len(published) : published[i].by = s}

\* C1: every payload published on the topic of a conversation is the response
\* form of a message row that is committed to the store for that conversation,
\* sent by the session's user; and a session has published exactly as many
\* payloads as frames it handled to the end, so a frame whose flush or commit
\* failed was not published.
C1_PersistBeforePublish ==
    /\ \A i \in 1..Len(published) :
          LET p == published[i].payload
          IN  /\ p.id \in 1..Len(messages)
              /\ messages[p.id].id = p.id
              /\ messages[p.id].chat_id = p.chat_id
              /\ messages[p.id].sender_id = p.sender_id
              /\ messages[p.id].content = p.content
              /\ messages[p.id].created_at = p.created_at
              /\ published[i].topic = Topic(messages[p.id].chat_id)
              /\ p.sender_id = handler[published[i].by].user
    /\ \A s \in Sessions :
          Cardinality(PublishedBy(s)) = Cardinality(Logged(s, "published"))

\* A session whose first frame failed at the commit and whose second frame was
\* committed and published.
C1_Witness ==
    \E s \in Sessions :
        /\ receiver[s].log = <<"SQLAlchemyError", "published">>
        /\ Len(published) = 1
        /\ Len(messages) = 1

\* Two rows of table chats are for the same listing (or for none) and the same
\* two users, in either order.
SameConversationKey(c, d) ==
    /\ chats[c].property_id = chats[d].property_id
    /\ {chats[c].initiator_id, chats[c].property_user_id}
         = {chats[d].initiator_id, chats[d].property_user_id}

\* C2: in every reachable state there is at most one conversation for a listing
\* (or for no listing) and an unordered pair of participants.
C2_ConversationUnique ==
    \A c, d \in ChatIds : SameConversationKey(c, d) => c = d

\* Two requests that passed validation ask for the same conversation.
SameRequestKey(a, b) ==
    /\ a.op = b.op
    /\ a.property_id = b.property_id
    /\ {a.user, a.other} = {b.user, b.other}
    /\ a.other \in Users
    /\ a.user # a.other

\* C3: two find-or-create requests for the same listing and pair, or the same
\* direct pair, that have both been answered were both answered successfully
\* and with the same conversation id.
C3_RaceReturnsSameChat ==
    \A v, w \in Workers :
        (/\ v # w
         /\ worker[v].pc = "done"
         /\ worker[w].pc = "done"
         /\ worker[v].op \in {"initiate_chat", "initiate_direct_chat"}
         /\ SameRequestKey(worker[v], worker[w]))
        => /\ worker[v].exc = "ok"
           /\ worker[w].exc = "ok"
           /\ worker[v].chat_id = worker[w].chat_id

\* The outcome of each service call against the stored conversation, and the
\* effect of a step that refuses a call.
AccessOps == {"get_chat_by_id", "get_messages", "add_message_to_chat", "mark_messages_as_read"}
AccessErrors == {"ChatNotFoundException", "UnauthorizedException"}

C4_Outcome ==
    \A w \in Workers :
        LET call == worker[w]
            stored == call.chat_id \in ChatIds
            member == /\ stored
                      /\ call.user \in {chats[call.chat_id].initiator_id,
                                        chats[call.chat_id].property_user_id}
        IN  (call.pc \in {"flushed", "done"} /\ call.op \in AccessOps) =>
               /\ (call.exc = "ChatNotFoundException") <=> ~stored
               /\ (call.exc = "UnauthorizedException") <=> (stored /\ ~member)
               /\ member => call.exc \in {"ok", "ChatException", "SQLAlchemyError"}
               /\ call.exc \in AccessErrors =>
                      /\ call.pc = "done"
                      /\ call.new_message = NoMessage
                      /\ call.marked = {}
                      /\ call.result = <<>>

C4_Refusal ==
    \A w \in Workers :
        (worker'[w] # worker[w] /\ worker'[w].exc \in AccessErrors)
        => (chats' = chats /\ messages' = messages /\ now' = now)

\* C4: a call of get_chat_by_id, get_chat_messages, add_message_to_chat or
\* mark_messages_as_read raises ChatNotFoundException exactly when the
\* conversation is not stored and UnauthorizedException exactly when it is
\* stored and the user is neither its initiator nor its property_user; a
\* participant's call is never refused (it succeeds, or fails only because the
\* store failed); and a step that refuses a call changes no row and no
\* timestamp and leaves nothing to commit.
C4_AccessRule == [](C4_Outcome) /\ [][C4_Refusal]_vars

\* A non-participant was refused marking as read while a participant's message
\* is committed.
C4_Witness ==
    \E v, w \in Workers :
        /\ worker[v].pc = "done"
        /\ worker[v].op = "mark_messages_as_read"
        /\ worker[v].exc = "UnauthorizedException"
        /\ worker[w].pc = "done"
        /\ worker[w].op = "add_message_to_chat"
        /\ worker[w].exc = "ok"
        /\ Len(messages) = 1

\* C5: a live-channel connection attempt that is refused because of the
\* conversation is answered 403 when the caller is not a participant and 404
\* when the conversation is not stored.
C5_BoundaryDistinguishes ==
    \A s \in Sessions :
        (/\ handler[s].pc = "closed"
         /\ ~handler[s].accepted
         /\ handler[s].response \notin {"503", "401"})
        => handler[s].response =
              (IF GetChatById(handler[s].chat, handler[s].user) = "ChatNotFoundException"
               THEN "404" ELSE "403")

\* C6: a session is accepted only for an authenticated user for whom
\* get_chat_by_id succeeds on the session's conversation; a session that is not
\* accepted has no duty task, no bus subscription and nothing delivered to it.
C6_FailClosedHandshake ==
    \A s \in Sessions :
        /\ handler[s].accepted =>
              /\ handler[s].user \in Users
              /\ handler[s].chat \in ChatIds
              /\ handler[s].user \in {chats[handler[s].chat].initiator_id,
                                       chats[handler[s].chat].property_user_id}
        /\ ~handler[s].accepted =>
              /\ sender[s].pc = "none"
              /\ receiver[s].pc = "none"
              /\ pubsub[s] = "none"
              /\ inbox[s] = <<>>
              /\ sent[s] = <<>>

\* A connection attempt of a non-participant has ended without accept.
C6_Witness ==
    \E s \in Sessions :
        /\ handler[s].pc = "closed"
        /\ ~handler[s].accepted
        /\ handler[s].user \in Users
        /\ handler[s].chat \in ChatIds
        /\ GetChatById(handler[s].chat, handler[s].user) = "UnauthorizedException"

\* A frame the inbound duty has to drop, and the step that disposes of it.
Malformed(f) ==
    \/ ~f.json
    \/ ~f.hasContent
    \/ f.content.len < MinContentLen
    \/ f.content.len > MaxContentLen

C7_Drop ==
    \A s \in Sessions :
        (/\ receiver[s].pc = "handle"
         /\ ~receiver[s].cancelReq
         /\ Malformed(receiver[s].frame)
         /\ receiver'[s].pc # "handle")
        => /\ \E e \in {"JSONDecodeError", "ValidationError"} :
                 receiver' = [receiver EXCEPT ![s].pc = "receive", ![s].frame = NoFrame,
                                              ![s].log = Append(@, e)]
           /\ handler[s].pc = "gather"
           /\ UNCHANGED <<storeVars, handler, sender, pubsub, inbox, sent, published>>

\* C7: the step in which the inbound duty disposes of a frame that is not JSON,
\* has no content, or whose content is empty or longer than 2000 characters
\* changes nothing but the duty's log: no row, no timestamp, nothing published
\* or delivered, the handler and the outbound duty as they were, and the
\* inbound duty back at receive.
C7_MalformedFrameDropped == [][C7_Drop]_vars

\* A session dropped a frame with invalid content and then persisted and
\* published the next frame.
C7_Witness ==
    \E s \in Sessions :
        /\ receiver[s].log = <<"ValidationError", "published">>
        /\ handler[s].pc = "gather"
        /\ Len(messages) = 1
        /\ Len(published) = 1

\* The step in which the inbound duty logs a store or bus failure.
C8_Failure ==
    \A s \in Sessions :
        \A e \in {"ChatException", "SQLAlchemyError", "RedisError"} :
            receiver'[s].log = Append(receiver[s].log, e) =>
               /\ receiver'[s].pc = "receive"
               /\ ~receiver'[s].cancelReq
               /\ handler[s].pc = "gather"
               /\ UNCHANGED <<handler, sender, pubsub, inbox, sent, published, chats, messages>>
               /\ e = "RedisError" =>
                      /\ receiver[s].msg.id \in 1..Len(messages)
                      /\ messages[receiver[s].msg.id] = receiver[s].msg

\* C8: the step in which the inbound duty logs a failed flush, commit or
\* publish leaves the duty at receive, the handler, the outbound duty and the
\* subscription as they were, and publishes nothing; after a failed flush or
\* commit no row is stored, and after a failed publish the committed row
\* stays in the store.
C8_InboundFailureKeepsSession == [][C8_Failure]_vars

\* A session's first message was committed and its publish failed; its second
\* message was committed and published.
C8_Witness ==
    \E s \in Sessions :
        /\ receiver[s].log = <<"RedisError", "published">>
        /\ handler[s].pc = "gather"
        /\ Len(messages) = 2
        /\ Len(published) = 1
        /\ published[1].payload.id = 2

\* C9: while the handler awaits its two duties, a duty that is done makes the
\* await complete, so that the handler goes on to cancel the other duty.
C9_DutyEndClosesSession ==
    \A s \in Sessions :
        (handler[s].pc = "gather" /\ (TaskDone(sender[s]) \/ TaskDone(receiver[s])))
        => GatherCompletes(s)

\* The step that publishes a payload, seen from another session.
C10_Publish ==
    \A t \in Sessions :
        (/\ Len(published') = Len(published) + 1
         /\ handler[t].accepted
         /\ handler[t].pc = "gather"
         /\ published'[Len(published')].by # t
         /\ Topic(handler[t].chat) = published'[Len(published')].topic)
        => inbox'[t] = Append(inbox[t], published'[Len(published')].payload)

\* C10: a payload one session publishes on a conversation's topic is delivered
\* to every other session that is accepted and open on that conversation at
\* that moment.
C10_NoPublishedMessageMissed == [][C10_Publish]_vars

\* The ids on one page of a history that the query reads in the order q.
Returned(q, page, per_page) ==
    LET items == Page(q, (page - 1) * per_page, per_page)
    IN  {items[k] : k \in DOMAIN items}

CallStarts(w) ==
    /\ clients'.calls < clients.calls
    /\ worker[w].pc \in {"idle", "done"}
    /\ worker'[w].pc # "idle"
    /\ \A v \in Workers \ {w} : worker'[v] = worker[v]

\* The request answered last on worker w got a conversation: find_or_create_chat
\* for the same listing and user is called next.
C12_Step ==
    \A w \in Workers :
        (/\ worker[w].pc = "done"
         /\ worker[w].op = "initiate_chat"
         /\ worker[w].exc = "ok"
         /\ CallStarts(w)
         /\ worker'[w].op = "initiate_chat"
         /\ worker'[w].property_id = worker[w].property_id
         /\ worker'[w].user = worker[w].user)
        => /\ worker'[w].pc = "done"
           /\ worker'[w].exc = "ok"
           /\ worker'[w].chat_id = worker[w].chat_id
           /\ chats' = chats

\* C12: when find_or_create_chat for a listing and a user has returned a
\* conversation and is called again for the same listing and user, with no
\* other request in between, the second call returns the same conversation id
\* and adds no row to table chats.
C12_ListingFindOrCreateIdempotent == [][C12_Step]_vars

\* A find_or_create_chat call was answered with a conversation it found stored,
\* which an earlier call for the same listing and user had created.
C12_Witness ==
    \E w \in Workers :
        /\ worker[w].pc = "done"
        /\ worker[w].op = "initiate_chat"
        /\ worker[w].exc = "ok"
        /\ worker[w].new_chat = InitWorker.new_chat
        /\ worker[w].chat_id \in ChatIds
        /\ Len(chats) = 1

\* find_or_create_direct_chat(a, b) has returned a conversation and
\* find_or_create_direct_chat(b, a) is called next.
C13_Step ==
    \A w \in Workers :
        (/\ worker[w].pc = "done"
         /\ worker[w].op = "initiate_direct_chat"
         /\ worker[w].exc = "ok"
         /\ CallStarts(w)
         /\ worker'[w].op = "initiate_direct_chat"
         /\ worker'[w].user = worker[w].other
         /\ worker'[w].other = worker[w].user)
        => /\ worker'[w].pc = "done"
           /\ worker'[w].exc = "ok"
           /\ worker'[w].chat_id = worker[w].chat_id
           /\ chats' = chats
           /\ Cardinality({c \in 1..Len(chats') :
                   /\ chats'[c].property_id = NoProperty
                   /\ {chats'[c].initiator_id, chats'[c].property_user_id}
                        = {worker[w].user, worker[w].other}}) = 1

\* C13: when find_or_create_direct_chat(a, b) has returned a conversation and
\* find_or_create_direct_chat(b, a) is called next, the second call returns the
\* same conversation id, adds no row, and exactly one direct conversation of a
\* and b is stored afterwards.
C13_DirectLookupSymmetric == [][C13_Step]_vars

\* A find_or_create_direct_chat call was answered with a stored conversation
\* whose initiator is the call's recipient.
C13_Witness ==
    \E w \in Workers :
        /\ worker[w].pc = "done"
        /\ worker[w].op = "initiate_direct_chat"
        /\ worker[w].exc = "ok"
        /\ worker[w].new_chat = InitWorker.new_chat
        /\ worker[w].chat_id \in ChatIds
        /\ chats[worker[w].chat_id].initiator_id = worker[w].other
        /\ chats[worker[w].chat_id].property_user_id = worker[w].user
        /\ Len(chats) = 1

\* A request that asks for a conversation of a user with themselves.
SelfChatRequest(call) ==
    \/ /\ call.op = "initiate_chat"
       /\ call.property_id \in Properties
       /\ call.user = ListerId(call.property_id)
    \/ /\ call.op = "initiate_direct_chat"
       /\ call.other = call.user

\* C14: a find-or-create request of a lister for their own listing, or of a
\* user with themselves as recipient, is answered InvalidRequestException at
\* once, with no row pending or stored for it; and every row of table chats,
\* and every row waiting for its commit, has two different participants.
C14_NoSelfChat ==
    /\ \A c \in ChatIds : chats[c].initiator_id # chats[c].property_user_id
    /\ \A w \in Workers :
          /\ worker[w].pc = "flushed" /\ worker[w].op \in {"initiate_chat", "initiate_direct_chat"}
                => worker[w].new_chat.initiator_id # worker[w].new_chat.property_user_id
          /\ worker[w].pc # "idle" /\ SelfChatRequest(worker[w]) =>
                /\ worker[w].pc = "done"
                /\ worker[w].exc = "InvalidRequestException"
                /\ worker[w].status = StatusCode("InvalidRequestException")
                /\ worker[w].new_chat = InitWorker.new_chat
                /\ worker[w].chat_id \notin ChatIds

\* A user asked for a direct conversation with themselves and was refused,
\* while another request created a conversation.
C14_Witness ==
    \E v, w \in Workers :
        /\ worker[v].pc = "done"
        /\ worker[v].op = "initiate_direct_chat"
        /\ SelfChatRequest(worker[v])
        /\ worker[v].exc = "InvalidRequestException"
        /\ worker[w].pc = "done"
        /\ worker[w].exc = "ok"
        /\ Len(chats) = 1

\* The ids of a page come in non-decreasing created_at order.
InCreatedAtOrder(items) ==
    \A i, j \in 1..Len(items) :
        i < j => messages[items[i]].created_at <= messages[items[j]].created_at

\* get_messages has answered page p of a conversation, and the same user asks
\* for page p + 1 of it with the same page size next.
C15_Step ==
    \A w \in Workers :
        (/\ worker[w].pc = "done"
         /\ worker[w].op = "get_messages"
         /\ worker[w].exc = "ok"
         /\ CallStarts(w)
         /\ worker'[w].op = "get_messages"
         /\ worker'[w].chat_id = worker[w].chat_id
         /\ worker'[w].user = worker[w].user
         /\ worker'[w].per_page = worker[w].per_page
         /\ worker'[w].page = worker[w].page + 1)
        => /\ worker'[w].exc = "ok"
           /\ InCreatedAtOrder(worker[w].result)
           /\ InCreatedAtOrder(worker'[w].result)
           /\ InCreatedAtOrder(worker[w].result \o worker'[w].result)
           /\ \A i \in 1..Len(worker[w].result), j \in 1..Len(worker'[w].result) :
                 worker[w].result[i] # worker'[w].result[j]

\* C15: each page get_chat_messages returns is in non-decreasing created_at
\* order, and page p + 1, read right after page p with the same page size and
\* no write in between, continues page p in that order without repeating a
\* message of it.
C15_PagesContinue == [][C15_Step]_vars

\* C16: in every committed state the updated_at of a conversation is not
\* earlier than the created_at of any of its messages.
C16_UpdatedAtCoversMessages ==
    \A i \in 1..Len(messages) :
        chats[messages[i].chat_id].updated_at >= messages[i].created_at

\* The rows mark_messages_as_read(chat_id, user) has to change.
Received(chat_id, user) ==
    {i \in 1..Len(messages) :
        /\ messages[i].chat_id = chat_id
        /\ messages[i].sender_id # user
        /\ ~messages[i].is_read}

\* The three steps of mark_messages_as_read: the call, its commit, and the
\* call that follows a call for the same conversation and user.
C17_Call ==
    \A w \in Workers :
        (/\ CallStarts(w)
         /\ worker'[w].op = "mark_messages_as_read"
         /\ worker'[w].exc = "ok")
        => /\ worker'[w].pc = "flushed"
           /\ worker'[w].marked = Received(worker'[w].chat_id, worker'[w].user)
           /\ worker'[w].result = <<Cardinality(worker'[w].marked)>>
           /\ messages' = messages

C17_Commit ==
    \A w \in Workers :
        (/\ worker[w].pc = "flushed"
         /\ worker[w].op = "mark_messages_as_read"
         /\ worker'[w].pc = "done"
         /\ worker'[w].exc = "ok")
        => /\ worker'[w].result = worker[w].result
           /\ Received(worker[w].chat_id, worker[w].user) = worker[w].marked
           /\ Len(messages') = Len(messages)
           /\ \A i \in 1..Len(messages) :
                 messages'[i] = IF i \in Received(worker[w].chat_id, worker[w].user)
                                THEN [messages[i] EXCEPT !.is_read = TRUE]
                                ELSE messages[i]

C17_Again ==
    \A w \in Workers :
        (/\ worker[w].pc = "done"
         /\ worker[w].op = "mark_messages_as_read"
         /\ worker[w].exc = "ok"
         /\ CallStarts(w)
         /\ worker'[w].op = "mark_messages_as_read"
         /\ worker'[w].chat_id = worker[w].chat_id
         /\ worker'[w].user = worker[w].user)
        => /\ worker'[w].exc = "ok"
           /\ worker'[w].result = <<0>>
           /\ worker'[w].marked = {}

\* C17: mark_messages_as_read(C, u) returns the number of messages of C that
\* are unread and were not sent by u, its commit sets is_read on exactly those
\* rows and changes no other row, and a call for the same conversation and
\* user that follows it, no message having been appended, returns 0 and
\* changes nothing.
C17_MarkReadExactlyOnce == [][C17_Call /\ C17_Commit /\ C17_Again]_vars

\* A second mark_messages_as_read has found nothing to change: a message the
\* user received is read, and the call returned 0.
C17_Witness ==
    \E w \in Workers :
        /\ worker[w].pc = "done"
        /\ worker[w].op = "mark_messages_as_read"
        /\ worker[w].exc = "ok"
        /\ worker[w].result = <<0>>
        /\ clients.calls = 0
        /\ \E i \in 1..Len(messages) :
              /\ messages[i].chat_id = worker[w].chat_id
              /\ messages[i].sender_id # worker[w].user
              /\ messages[i].is_read
              /\ chats[worker[w].chat_id].updated_at > messages[i].created_at

\* C18: when the chat_ws handler has returned from an accepted session, both
\* duties are done and the session's subscription, if one was created, has
\* been unsubscribed and closed.
C18_ClosedMeansCleanedUp ==
    \A s \in Sessions :
        (handler[s].pc = "closed" /\ handler[s].accepted)
        => /\ TaskDone(sender[s])
           /\ TaskDone(receiver[s])
           /\ pubsub[s] \in {"none", "closed"}

\* C19: an outbound duty that has ended by cancellation after its subscription
\* object was created has gone through its finally clause, where
\* pubsub.unsubscribe on the conversation's topic is called, entered on the
\* cancellation or on an earlier error.
C19_CancelledDutyUnsubscribes ==
    \A s \in Sessions :
        (TaskDone(sender[s]) /\ sender[s].result = "cancelled" /\ pubsub[s] # "none")
        => sender[s].exit \in {"cancelled", "error"}

\* A session's outbound duty was cancelled while it listened, and ended
\* cancelled after it unsubscribed and closed its subscription.
C19_Witness ==
    \E s \in Sessions :
        /\ TaskDone(sender[s])
        /\ sender[s].result = "cancelled"
        /\ sender[s].exit = "cancelled"
        /\ pubsub[s] = "closed"
        /\ handler[s].pc = "closed"

\* The inbound duty of session s is in redis_client.publish, or about to call it.
AwaitsPublish(s) == receiver[s].pc = "committed"

\* C20: while the inbound duty of a session calls and awaits publish for a
\* message, the duty holds no store session, and the message is a committed
\* row of table chat_messages; every payload handed to the bus is the committed
\* row, not a row of a session that is still open.
C20_NoSessionAcrossPublish ==
    /\ \A s \in Sessions :
          AwaitsPublish(s)
          => /\ ~SessionOpen(s)
             /\ receiver[s].msg.id \in 1..Len(messages)
             /\ messages[receiver[s].msg.id] = receiver[s].msg
    /\ \A k \in 1..Len(published) :
          /\ published[k].payload.id \in 1..Len(messages)
          /\ ChatMessageResponse(messages[published[k].payload.id]) = published[k].payload

\* A session has published two messages, each after its commit, and awaits the
\* next frame with no store session open.
C20_Witness ==
    \E s \in Sessions :
        /\ Len(published) = 2
        /\ \A k \in 1..2 : published[k].by = s /\ published[k].payload.id = k
        /\ Len(messages) = 2
        /\ receiver[s].pc = "receive"
        /\ ~SessionOpen(s)

\* C21: every frame a session has sent to its client is, unchanged, a payload
\* published on the topic of the session's conversation; it is a message of
\* that conversation, and the session's user is a participant of it.
C21_FanOutOnlyOwnTopic ==
    \A s \in Sessions :
        \A i \in 1..Len(sent[s]) :
            /\ \E k \in 1..Len(published) :
                  /\ published[k].topic = Topic(handler[s].chat)
                  /\ published[k].payload = sent[s][i]
            /\ sent[s][i].chat_id = handler[s].chat
            /\ IsParticipant(chats[handler[s].chat], handler[s].user)

\* Two sessions are open, for two conversations; a message was published on
\* each topic, and each client was sent the one of its own conversation only.
C21_Witness ==
    \E s, t \in Sessions :
        /\ handler[s].chat # handler[t].chat
        /\ Len(published) = 2
        /\ published[1].topic # published[2].topic
        /\ Len(sent[s]) = 1
        /\ Len(sent[t]) = 1

\* C22: the sender of every stored message is one of the two participants of
\* the conversation that owns the message.
C22_SenderIsParticipant ==
    \A i \in 1..Len(messages) :
        /\ messages[i].chat_id \in ChatIds
        /\ IsParticipant(chats[messages[i].chat_id], messages[i].sender_id)

\* A participant's message is stored, and add_message_to_chat called next for a
\* user who is no participant of the conversation was refused.
C22_Witness ==
    \E w \in Workers :
        /\ Len(messages) = 1
        /\ worker[w].pc = "done"
        /\ worker[w].op = "add_message_to_chat"
        /\ worker[w].exc = "UnauthorizedException"
        /\ worker[w].chat_id = messages[1].chat_id

\* What a step may do to the stored messages: keep every row, with its id,
\* conversation, sender, content and created_at, and never unset a read flag.
C23_Step ==
    /\ Len(messages') >= Len(messages)
    /\ \A i \in 1..Len(messages) :
          /\ messages'[i] = [messages[i] EXCEPT !.is_read = messages'[i].is_read]
          /\ messages[i].is_read => messages'[i].is_read
          /\ messages[i].id = i

\* C23: a stored message keeps its id, conversation, sender, content and
\* created_at, no message is ever removed, and is_read only goes from false to
\* true.
C23_MessagesImmutable == [][C23_Step]_vars

\* A message was appended and then marked read by the participant who
\* received it.
C23_Witness ==
    \E w \in Workers :
        /\ worker[w].pc = "done"
        /\ worker[w].op = "mark_messages_as_read"
        /\ worker[w].exc = "ok"
        /\ worker[w].result = <<1>>
        /\ Len(messages) = 1
        /\ messages[1].is_read
        /\ messages[1].sender_id # worker[w].user

\* C24: the committed updated_at of a conversation never decreases.
C24_UpdatedAtMonotonic ==
    [][\A c \in ChatIds : chats'[c].updated_at >= chats[c].updated_at]_vars

\* C25: the message the inbound duty of a session writes and commits has the
\* session's authenticated user as its sender and the session's conversation
\* as its conversation, also when the frame names another user or another
\* conversation.
C25_NoSenderSpoofing ==
    \A s \in Sessions :
        receiver[s].pc \in {"flushed", "committed"}
        => /\ receiver[s].msg.sender_id = handler[s].user
           /\ receiver[s].msg.chat_id = handler[s].chat
           /\ receiver[s].pc = "committed"
              => /\ receiver[s].msg.id \in 1..Len(messages)
                 /\ messages[receiver[s].msg.id].sender_id = handler[s].user
                 /\ messages[receiver[s].msg.id].chat_id = handler[s].chat

\* A session of another user, for another conversation, has committed the
\* message of the frame that names user u3 and conversation 2.
C25_Witness ==
    \E s \in Sessions :
        /\ handler[s].user # SpoofFrame.sender_id
        /\ handler[s].chat # SpoofFrame.chat_id
        /\ receiver[s].pc = "committed"
        /\ receiver[s].msg.content = SpoofFrame.content
        /\ messages[receiver[s].msg.id].sender_id = handler[s].user

\* C26: once the handler of an accepted session has returned, the session's
\* subscription is eventually no longer registered on the bus, when no call
\* fails and every task that can run does.
C26_NoSubscriptionLeak ==
    \A s \in Sessions :
        [](handler[s].pc = "closed" /\ handler[s].accepted
             => <>(pubsub[s] # "subscribed"))

\* The valid frames of session s whose message was committed, and those whose
\* store write or commit failed.
Stored(s) ==
    Cardinality(Logged(s, "published")) + Cardinality(Logged(s, "RedisError"))
        + (IF receiver[s].pc = "committed" THEN 1 ELSE 0)

StoreFailed(s) ==
    Cardinality(Logged(s, "ChatException")) + Cardinality(Logged(s, "SQLAlchemyError"))

\* The payloads that reached the subscription of session s, sent to the client
\* or still waiting.
Delivered(s) == sent[s] \o inbox[s]

\* C27, as stated: every valid frame a session has handled to the end has
\* produced a stored message.
C27_OneFrameOneMessage ==
    \A s \in Sessions :
        (handler[s].accepted /\ ~TaskDone(receiver[s]))
        => Len(messages) = Stored(s) + StoreFailed(s)

\* The frames the clients have sent, and the frames session s has dropped as
\* malformed.
FramesReceived == MaxFrames - clients.frames

Dropped(s) ==
    Cardinality(Logged(s, "JSONDecodeError")) + Cardinality(Logged(s, "ValidationError"))

\* C27, amended: a valid frame produces one stored message when its store
\* write and commit succeed and none when they fail, never two (the duty may
\* be cancelled between the commit and the publish); a stored message is
\* published at most once, and a published payload reaches the client of a
\* session at most once.
C27_OneFrameAtMostOneMessage ==
    \A s \in Sessions :
        handler[s].accepted
        => /\ ~TaskDone(receiver[s]) => Len(messages) = Stored(s)
           /\ Stored(s) <= Len(messages)
           /\ Len(messages) <= Stored(s) + 1
           /\ Len(messages) <= FramesReceived - Dropped(s) - StoreFailed(s)
           /\ Cardinality(PublishedBy(s)) = Cardinality(Logged(s, "published"))
           /\ \A i, j \in 1..Len(published) :
                 i # j => published[i].payload.id # published[j].payload.id
           /\ Len(Delivered(s)) <= Len(published)
           /\ \A i, j \in 1..Len(Delivered(s)) :
                 i # j => Delivered(s)[i].id # Delivered(s)[j].id

\* A session has handled two valid frames: two messages are stored, each was
\* published once, and the session's own client was sent each of them once.
C27_Witness ==
    \E s \in Sessions :
        /\ receiver[s].log = <<"published", "published">>
        /\ Len(messages) = 2
        /\ Len(published) = 2
        /\ Len(sent[s]) = 2
        /\ sent[s][1].id # sent[s][2].id

\* The property_id a request asks for: the listing, or none for a direct chat.
AskedProperty(call) ==
    IF call.op = "initiate_direct_chat" THEN NoProperty ELSE call.property_id

\* C28: the conversation find_or_create_direct_chat returns or creates has no
\* property_id, and the one find_or_create_chat returns or creates for a
\* listing has the property_id of that listing, also when the same two users
\* already hold a conversation of the other kind.
C28_KindsKeptApart ==
    \A w \in Workers :
        worker[w].op \in {"initiate_chat", "initiate_direct_chat"}
        => /\ worker[w].pc = "flushed"
              => worker[w].new_chat.property_id = AskedProperty(worker[w])
           /\ (worker[w].pc = "done" /\ worker[w].exc = "ok")
              => /\ worker[w].chat_id \in ChatIds
                 /\ chats[worker[w].chat_id].property_id = AskedProperty(worker[w])
                 /\ IsParticipant(chats[worker[w].chat_id], worker[w].user)
                 /\ IsParticipant(chats[worker[w].chat_id], worker[w].other)

\* Two users hold a direct conversation, and find_or_create_chat for a listing
\* of one of them, called by the other, has created a second conversation.
C28_Witness ==
    \E w \in Workers :
        /\ Len(chats) = 2
        /\ chats[1].property_id = NoProperty
        /\ chats[2].property_id \in Properties
        /\ {chats[1].initiator_id, chats[1].property_user_id}
             = {chats[2].initiator_id, chats[2].property_user_id}
        /\ worker[w].pc = "done"
        /\ worker[w].op = "initiate_chat"
        /\ worker[w].exc = "ok"
        /\ worker[w].chat_id = 2

\* What a step may do to table chats: keep every row, with its property_id,
\* initiator_id and property_user_id.
C29_Step ==
    /\ Len(chats') >= Len(chats)
    /\ \A c \in ChatIds :
          /\ chats'[c].property_id = chats[c].property_id
          /\ chats'[c].initiator_id = chats[c].initiator_id
          /\ chats'[c].property_user_id = chats[c].property_user_id

\* The user of an accepted session is a participant of the session's
\* conversation.
C29_StillParticipant ==
    \A s \in Sessions :
        handler[s].accepted
        => /\ handler[s].chat \in ChatIds
           /\ IsParticipant(chats[handler[s].chat], handler[s].user)

\* C29: no chat operation changes the property_id, initiator_id or
\* property_user_id of a stored conversation or removes a conversation, so the
\* user of an accepted session stays a participant of the session's
\* conversation for as long as the session lasts.
C29_ParticipantsFixed == [][C29_Step]_vars /\ []C29_StillParticipant

\* While a session is open, its conversation has received a message over the
\* live channel and has been marked read by a request, and another
\* conversation has been created.
C29_Witness ==
    \E s \in Sessions, w \in Workers :
        /\ handler[s].accepted
        /\ Logged(s, "published") # {}
        /\ worker[w].pc = "done"
        /\ worker[w].op = "mark_messages_as_read"
        /\ worker[w].exc = "ok"
        /\ worker[w].result = <<1>>
        /\ worker[w].chat_id = handler[s].chat
        /\ Len(chats) > Len(InitChats)

====
